---- MODULE Spec2Model ----
(***************************************************************************)
(* Server-side aggregation rules of fl/aggregator.py: FedAvg, MI (mutual   *)
(* information filter with Nesterov momentum) and Bicotti (distance        *)
(* filter).                                                                *)
(*                                                                         *)
(* A model (global model, client update, momentum) is a NumpyModel holding *)
(* one one-element parameter array, so it is written as one number.  The   *)
(* container's operators work element by element, so one element shows     *)
(* what every element does; the L2 distance of two such models is the      *)
(* absolute value of their difference.                                     *)
(*                                                                         *)
(* Numbers are binary floating-point values with MantBits significant bits *)
(* and a smallest step of 2^-FracBits, written as the integer count of     *)
(* smallest steps.  Every arithmetic operation rounds its exact result to  *)
(* the nearest representable value, ties to even, as IEEE 754 does.  The   *)
(* exponent range is not bounded above: the values of the model never      *)
(* overflow, and no input is NaN or infinite.                              *)
(***************************************************************************)
EXTENDS Integers, Sequences, FiniteSets, TLC

\* ---------------------------------------------------------------- bounds
MantBits == 4       \* significant bits of a floating-point value
FracBits == 4       \* the smallest step is 2^-FracBits
MaxUpdates == 6     \* client updates one FedAvg / Bicotti instance is given in all
MaxMIClients == 3   \* client updates of one MI round
MaxMIUpdates == 6   \* client updates given to the MI rounds of one training run

\* ------------------------------------------------- floating-point numbers
ONE == 2^FracBits

Abs(x) == IF x < 0 THEN -x ELSE x

RECURSIVE Quantum(_, _, _)
\* The spacing of representable values around a / den.
Quantum(a, den, q) ==
    IF a < den * (2^MantBits) * q THEN q ELSE Quantum(a, den, 2 * q)

\* num / den (den > 0) rounded to the nearest representable value, ties to even.
RoundQ(num, den) ==
    IF den = 1 /\ -(2^MantBits) < num /\ num < 2^MantBits THEN num ELSE
    LET a == Abs(num)
        q == Quantum(a, den, 1)
        d == den * q
        f == a \div d
        r == a % d
        k == IF 2 * r < d THEN f
             ELSE IF 2 * r > d THEN f + 1
             ELSE IF f % 2 = 0 THEN f ELSE f + 1
    IN  (IF num < 0 THEN -1 ELSE 1) * k * q

FlAdd(x, y) == RoundQ(x + y, 1)
FlSub(x, y) == RoundQ(x - y, 1)
FlMul(x, y) == RoundQ(x * y, ONE)
\* x / y for floating-point y # 0
FlDiv(x, y) == IF y < 0 THEN RoundQ(-(x * ONE), -y) ELSE RoundQ(x * ONE, y)
\* x / N for a Python int N > 0
FlDivInt(x, N) == RoundQ(x, N)

RECURSIVE FlSumFrom(_, _)
\* acc += s[1]; acc += s[2]; ...
FlSumFrom(acc, s) ==
    IF s = <<>> THEN acc ELSE FlSumFrom(FlAdd(acc, Head(s)), Tail(s))

\* zeros_like()
ZerosLike == 0

\* NumpyModel / N raises on a zero count
DivisionFails(N) == N = 0

\* ---------------------------------------------------------------- inputs
GradVals == {14, 16, 80}
SlrVals == {ONE, ONE \div 2}
BetaVals == {ONE \div 2, ONE \div 4}
GlobalVals == {0, 40}

SeqsOfLen(S, n) == [1..n -> S]
SeqsUpTo(S, n) == UNION {SeqsOfLen(S, k) : k \in 0..n}

\* ----------------------------------------------------------------- state
VARIABLES
    agg,            \* the class of the instance
    global_model,   \* self.global_model
    m,              \* self.m
    beta,           \* self.beta
    lr,             \* self.lr
    clients_grads,  \* self.clients_grads
    clients_model,  \* self.clients_model (MI)
    outcome,        \* how the last apply_gradients call ended
    select,         \* indices of the updates averaged by the last call, in order
    scores,         \* the per-client scores of the last call (MI, Bicotti)
    probe,          \* rho.mean() of each client pair in the last MI call
    printed,        \* what the last call printed
    hist,           \* one record per completed call: model and momentum before, average, after
    twin,           \* a second instance given the same calls, differing only in beta
    budget          \* client updates still to be submitted

vars == <<agg, global_model, m, beta, lr, clients_grads, clients_model, outcome,
          select, scores, probe, printed, hist, twin, budget>>

NoTwin == [global_model |-> ZerosLike, m |-> ZerosLike, beta |-> 0]

Completed(g0, m0, avg, g1, m1) == [g0 |-> g0, m0 |-> m0, avg |-> avg, g1 |-> g1, m1 |-> m1]

\* ---------------------------------------------------------------- FedAvg
\* (a count that a guard against empty input has raised to 1)
FedAvgCountAtLeastOne(grads) == IF Len(grads) = 0 THEN 1 ELSE Len(grads)
\* N = len(self.clients_grads)
FedAvgCount(grads) == Len(grads)

\* (the sum of the updates, never divided)
FedAvgRoundAggNoDivide(grads) == FlSumFrom(ZerosLike, grads)
\* round_agg of FedAvg.apply_gradients: the sum of all updates over their count
FedAvgRoundAgg(grads) == FlDivInt(FlSumFrom(ZerosLike, grads), FedAvgCount(grads))

\* (the scaled average assigned to the model rather than added to it)
ApplyStepAssign(g, slr, round_agg) == FlMul(-slr, round_agg)
\* self.global_model += - self.lr * round_agg
ApplyStep(g, slr, round_agg) == FlAdd(g, FlMul(-slr, round_agg))

FedAvgStart(updates) ==
    /\ agg = "FedAvg"
    /\ global_model \in GlobalVals
    /\ beta \in BetaVals
    /\ lr \in SlrVals
    /\ m = ZerosLike
    /\ clients_grads = <<>>
    /\ clients_model = <<>>
    /\ outcome = "none"
    /\ select = <<>>
    /\ scores = <<>>
    /\ probe = <<>>
    /\ printed = <<>>
    /\ hist = <<>>
    /\ twin = NoTwin
    /\ budget = updates

FedAvgApply(grads) ==
    /\ agg = "FedAvg"
    /\ Len(grads) <= budget
    /\ budget' = budget - Len(grads)
    /\ clients_grads' = grads
    /\ IF DivisionFails(FedAvgCount(grads))
       THEN /\ outcome' = "division_error"
            /\ UNCHANGED <<global_model, hist, select>>
       ELSE LET round_agg == FedAvgRoundAgg(grads)
                g1 == ApplyStep(global_model, lr, round_agg)
            IN  /\ global_model' = g1
                /\ hist' = Append(hist, Completed(global_model, m, round_agg, g1, m))
                /\ select' = [i \in 1..Len(grads) |-> i]
                /\ outcome' = "returned"
    /\ UNCHANGED <<agg, m, beta, lr, clients_model, scores, probe, printed, twin>>

FedAvgCall == \E grads \in SeqsUpTo(GradVals, budget) : FedAvgApply(grads)

FedAvgInit == FedAvgStart(MaxUpdates)

SpecFedAvg == FedAvgInit /\ [][FedAvgCall]_vars

\* --------------------------------------------------------------- Bicotti
\* sum_model_L2_distance of two one-element models
L2Distance(a, b) == Abs(FlSub(a, b))

\* dists: zero diagonal, dists[i, j] = dists[j, i] = the distance computed for i < j
Dists(grads) ==
    [i \in 1..Len(grads) |->
        [j \in 1..Len(grads) |->
            IF i = j THEN 0
            ELSE IF i < j THEN L2Distance(grads[i], grads[j])
            ELSE L2Distance(grads[j], grads[i])]]

\* np.sort of one row
SortRow(row) == SortSeq(row, LAMBDA x, y : x < y)

\* f = int(R / 3)
BicottiF(R) == R \div 3
\* (one neighbour too many)
BicottiSelectOffByOne(R) == R - BicottiF(R) - 1
\* select = R - f - 2
BicottiSelect(R) == R - BicottiF(R) - 2
\* range(R - f), N = R - f
BicottiKeep(R) == R - BicottiF(R)

\* row[:k]
Prefix(row, k) == SubSeq(row, 1, k)

\* scores = np.sum(np.sort(dists)[:, :select+1], axis=1)
BicottiScores(grads) ==
    LET d == Dists(grads)
    IN  [i \in 1..Len(grads) |->
            FlSumFrom(0, Prefix(SortRow(d[i]), BicottiSelect(Len(grads)) + 1))]

\* (the k highest scores first)
ArgsortPicksDescending(sc, k) ==
    LET idx == [i \in 1..Len(sc) |-> i]
        first(S) == \A i \in S : \A j \in DOMAIN sc \ S : sc[i] >= sc[j]
        before(i, j) == sc[i] > sc[j] \/ (sc[i] = sc[j] /\ i < j)
    IN  {SortSeq(SelectSeq(idx, LAMBDA i : i \in S), before) :
            S \in {T \in SUBSET DOMAIN sc : Cardinality(T) = k /\ first(T)}}

\* np.argsort(scores)[0 : k].  np.argsort places equal scores in an order its
\* caller cannot rely on, so any k indices that no left-out index undercuts may
\* come first; they are listed by ascending score, equal scores by ascending index.
ArgsortPicks(sc, k) ==
    LET idx == [i \in 1..Len(sc) |-> i]
        first(S) == \A i \in S : \A j \in DOMAIN sc \ S : sc[i] <= sc[j]
        before(i, j) == sc[i] < sc[j] \/ (sc[i] = sc[j] /\ i < j)
    IN  {SortSeq(SelectSeq(idx, LAMBDA i : i \in S), before) :
            S \in {T \in SUBSET DOMAIN sc : Cardinality(T) = k /\ first(T)}}

\* round_agg: the updates at the picked indices, summed in that order, over N
PickedRoundAgg(grads, picks) ==
    FlDivInt(FlSumFrom(ZerosLike, [i \in 1..Len(picks) |-> grads[picks[i]]]), Len(picks))

\* (the momentum update of MI applied in Bicotti)
BicottiStepWithMomentum(g, mom, b, slr, round_agg) ==
    LET m_new == FlSub(FlMul(b, mom), FlMul(slr, round_agg))
    IN  [global_model |-> FlAdd(g, FlAdd(FlMul(-b, mom), FlMul(FlAdd(ONE, b), m_new))),
         m |-> m_new]

\* What Bicotti.apply_gradients does to (global_model, m) with the round average
BicottiStep(g, mom, b, slr, round_agg) ==
    [global_model |-> ApplyStep(g, slr, round_agg), m |-> mom]

BicottiStart(updates) ==
    /\ agg = "Bicotti"
    /\ global_model \in GlobalVals
    /\ beta = ONE \div 2
    /\ lr \in SlrVals
    /\ m = ZerosLike
    /\ clients_grads = <<>>
    /\ clients_model = <<>>
    /\ outcome = "none"
    /\ select = <<>>
    /\ scores = <<>>
    /\ probe = <<>>
    /\ printed = <<>>
    /\ hist = <<>>
    /\ \E b \in BetaVals \ {beta} :
          twin = [global_model |-> global_model, m |-> ZerosLike, beta |-> b]
    /\ budget = updates

BicottiApply(grads, picks) ==
    /\ agg = "Bicotti"
    /\ Len(grads) <= budget
    /\ budget' = budget - Len(grads)
    /\ clients_grads' = grads
    /\ scores' = BicottiScores(grads)
    /\ select' = picks
    /\ IF DivisionFails(BicottiKeep(Len(grads)))
       THEN /\ outcome' = "division_error"
            /\ UNCHANGED <<global_model, m, hist, twin>>
       ELSE LET round_agg == PickedRoundAgg(grads, picks)
                own == BicottiStep(global_model, m, beta, lr, round_agg)
                other == BicottiStep(twin.global_model, twin.m, twin.beta, lr, round_agg)
            IN  /\ global_model' = own.global_model
                /\ m' = own.m
                /\ twin' = [twin EXCEPT !.global_model = other.global_model, !.m = other.m]
                /\ hist' = Append(hist, Completed(global_model, m, round_agg,
                                                  own.global_model, own.m))
                /\ outcome' = "returned"
    /\ UNCHANGED <<agg, beta, lr, clients_model, probe, printed>>

BicottiCall ==
    \E grads \in SeqsUpTo(GradVals, budget) :
        \E picks \in ArgsortPicks(BicottiScores(grads), BicottiKeep(Len(grads))) :
            BicottiApply(grads, picks)

BicottiInit == BicottiStart(MaxUpdates)

SpecBicotti == BicottiInit /\ [][BicottiCall]_vars

\* -------------------------------------------------------------------- MI
MIGradVals == {16, 80}
\* rho.mean().item() of a client pair: 0, 1/2, 15/16, 1, and a value that rounding
\* in the float32 correlation has pushed above 1
RhoVals == {0, ONE \div 2, (15 * ONE) \div 16, ONE, (5 * ONE) \div 4}
RhoInside == {0, ONE \div 2, (15 * ONE) \div 16}

PairsOf(n) == {p \in (1..n) \X (1..n) : p[1] < p[2]}

\* intermediate = 1 - pow(rho.mean().item(), 2)
Intermediate(rho) == FlSub(ONE, FlMul(rho, rho))

\* if intermediate < 1e-300: intermediate += 1e-300.  1e-300 lies below the
\* smallest step: added to 0 it gives 1e-300 (eps = 1), added to a negative
\* value it is rounded away.
EpsilonFloor(x) ==
    IF x <= 0 THEN [units |-> x, eps |-> IF x = 0 THEN 1 ELSE 0]
    ELSE [units |-> x, eps |-> 0]

\* math.log raises ValueError outside its domain
LogRaises(v) == v.units < 0 \/ (v.units = 0 /\ v.eps = 0)

\* 10000 * ln(k / 16) for k = 1..16, and 10000 * ln(1e-300)
LnSixteenths ==
    <<-27726, -20794, -16740, -13863, -11632, -9808, -8267, -6931,
      -5754, -4700, -3747, -2877, -2076, -1335, -645, 0>>
LnEpsilon == -6907755

\* math.log(intermediate) inside its domain
Log(v) ==
    IF v.units = 0 THEN RoundQ(LnEpsilon * ONE, 10000)
    ELSE RoundQ(LnSixteenths[(v.units * 16) \div ONE] * ONE, 10000)

\* try: log(intermediate) / except ValueError: print(...)
TryLogPrints(v) == LogRaises(v)

\* mi = - log(intermediate) / 2, which runs after the try statement
MiRaises(v) == LogRaises(v)
Mi(v) == FlDivInt(-Log(v), 2)

\* What lines 135-143 make of one pair's rho.mean(): the floored intermediate,
\* whether the try statement prints, whether line 143 raises, and mi if it does not.
PairOutcome(rho) ==
    LET v == EpsilonFloor(Intermediate(rho))
    IN  [intermediate |-> v.units,
         prints |-> TryLogPrints(v),
         raises |-> MiRaises(v),
         mi |-> IF MiRaises(v) THEN 0 ELSE Mi(v)]

PairTable == [rho \in RhoVals |-> PairOutcome(rho)]

\* the pairs get_mutual_mi reaches whose log raises, and the first in loop order
RaisingPairs(n, rho) == {p \in PairsOf(n) : PairTable[rho[p]].raises}
FirstPair(P) ==
    CHOOSE p \in P : \A q \in P : p[1] < q[1] \/ (p[1] = q[1] /\ p[2] <= q[2])

\* avg_mi = np.mean(mutual_mi, axis=1) when no pair raises
AvgMi(n, rho) ==
    LET mutual_mi(i, j) ==
            IF i = j THEN 0
            ELSE IF i < j THEN PairTable[rho[<<i, j>>]].mi ELSE PairTable[rho[<<j, i>>]].mi
    IN  [i \in 1..n |-> FlDivInt(FlSumFrom(0, [j \in 1..n |-> mutual_mi(i, j)]), n)]

\* np.median of a non-empty array
Median(s) ==
    LET sorted == SortRow(s)
        n == Len(s)
    IN  IF n % 2 = 1 THEN sorted[(n + 1) \div 2]
        ELSE FlDivInt(FlAdd(sorted[n \div 2], sorted[n \div 2 + 1]), 2)

\* MAD = np.median(abs(MI - np.median(MI)))
Mad(MI) ==
    LET med == Median(MI)
    IN  Median([i \in 1..Len(MI) |-> Abs(FlSub(MI[i], med))])
\* MADN = MAD / 0.6745
Madn(MI) == RoundQ(Mad(MI) * 10000, 6745)

\* (the comparison turned around)
OutsideTwoSigma(ts) == Abs(ts) > 2 * ONE
\* abs(ts[i]) < 2
WithinTwoSigma(ts) == Abs(ts) < 2 * ONE

\* ts[i] = (MI[i] - np.median(MI)) / MADN ... if abs(ts[i]) < 2.  A zero MADN
\* makes ts[i] NaN or infinite, and the comparison false.
Kept(x, med, madn) ==
    /\ madn # 0
    /\ WithinTwoSigma(FlDiv(FlSub(x, med), madn))

\* the indices appended to select, in order
TwoSigmaSelect(MI) ==
    IF MI = <<>> THEN <<>>
    ELSE LET med == Median(MI)
             madn == Madn(MI)
         IN  SelectSeq([i \in 1..Len(MI) |-> i], LAMBDA i : Kept(MI[i], med, madn))

\* (the new momentum used where the previous one belongs)
NesterovStepNewMomentum(g, m_prev, b, slr, round_agg) ==
    LET m_new == FlSub(FlMul(b, m_prev), FlMul(slr, round_agg))
    IN  [global_model |->
            FlAdd(g, FlAdd(FlMul(-b, m_new), FlMul(FlAdd(ONE, b), m_new))),
         m |-> m_new]

\* self.m = self.beta * m_prev - self.lr * round_agg
\* self.global_model += - self.beta * m_prev + (1 + self.beta) * self.m
NesterovStep(g, m_prev, b, slr, round_agg) ==
    LET m_new == FlSub(FlMul(b, m_prev), FlMul(slr, round_agg))
    IN  [global_model |->
            FlAdd(g, FlAdd(FlMul(-b, m_prev), FlMul(FlAdd(ONE, b), m_new))),
         m |-> m_new]

MIStart(G, M, B, updates) ==
    /\ agg = "MI"
    /\ global_model \in G
    /\ beta \in B
    /\ lr = ONE \div 2
    /\ m \in M
    /\ clients_grads = <<>>
    /\ clients_model = <<>>
    /\ outcome = "none"
    /\ select = <<>>
    /\ scores = <<>>
    /\ probe = <<>>
    /\ printed = <<>>
    /\ hist = <<>>
    /\ twin = NoTwin
    /\ budget = updates

MIApply(grads, rho) ==
    LET n == Len(grads)
        raising == RaisingPairs(n, rho)
        MI == AvgMi(n, rho)
        sel == TwoSigmaSelect(MI)
        round_agg == PickedRoundAgg(grads, sel)
        next == NesterovStep(global_model, m, beta, lr, round_agg)
    IN  /\ agg = "MI"
        /\ n <= budget
        /\ budget' = budget - n
        /\ clients_grads' = grads
        /\ clients_model' = [i \in 1..n |-> FlSub(global_model, grads[i])]
        /\ probe' = rho
        /\ IF raising # {}
           THEN /\ outcome' = "value_error"
                /\ printed' = IF PairTable[rho[FirstPair(raising)]].prints
                              THEN <<PairTable[rho[FirstPair(raising)]].intermediate>>
                              ELSE <<>>
                /\ scores' = <<>>
                /\ select' = <<>>
                /\ UNCHANGED <<global_model, m, hist>>
           ELSE /\ printed' = <<>>
                /\ scores' = MI
                /\ select' = sel
                /\ IF DivisionFails(Len(sel))
                   THEN /\ outcome' = "division_error"
                        /\ UNCHANGED <<global_model, m, hist>>
                   ELSE /\ global_model' = next.global_model
                        /\ m' = next.m
                        /\ hist' = Append(hist, Completed(global_model, m, round_agg,
                                                          next.global_model, next.m))
                        /\ outcome' = "returned"
        /\ UNCHANGED <<agg, beta, lr, twin>>

\* one round's call, whatever the probe model answers
MICall ==
    \E n \in {k \in 0..MaxMIClients : k <= budget} :
        \E grads \in SeqsOfLen(MIGradVals, n), rho \in [PairsOf(n) -> RhoVals] :
            MIApply(grads, rho)

\* the call of a fresh instance in a run whose probe correlations stay below 1
MIRound ==
    /\ outcome = "none"
    /\ \E n \in {k \in 0..MaxMIClients : k <= budget} :
          \E grads \in SeqsOfLen(MIGradVals, n), rho \in [PairsOf(n) -> RhoInside] :
              MIApply(grads, rho)

\* MI.__init__ for the next round, given the model and momentum the caller holds
MINextRound ==
    /\ agg = "MI"
    /\ outcome # "none"
    /\ global_model' = global_model
    /\ m' = m
    /\ clients_grads' = <<>>
    /\ clients_model' = <<>>
    /\ select' = <<>>
    /\ scores' = <<>>
    /\ probe' = <<>>
    /\ printed' = <<>>
    /\ outcome' = "none"
    /\ UNCHANGED <<agg, beta, lr, hist, twin, budget>>

MIInit == MIStart({40}, {ZerosLike}, {ONE \div 2}, MaxMIClients)

SpecMI == MIInit /\ [][MICall]_vars

MomentumInit == MIStart({40}, {-6}, BetaVals, MaxMIUpdates)

MomentumNext == MIRound \/ MINextRound

SpecMomentum == MomentumInit /\ [][MomentumNext]_vars

\* ------------------------------------------------------ all three classes
Init ==
    \/ FedAvgStart(MaxMIClients)
    \/ BicottiStart(MaxMIClients)
    \/ MIInit

Next == FedAvgCall \/ BicottiCall \/ MICall

Spec == Init /\ [][Next]_vars

\* ------------------------------------------------------- claims on FedAvg
Last(s) == s[Len(s)]
Identical(grads) == \A i \in 1..Len(grads) : grads[i] = grads[1]
AvgsOf(h) == [k \in 1..Len(h) |-> h[k].avg]
\* x = g - slr * y in exact (unrounded) arithmetic
ExactStep(x, g, slr, y) == (g - x) * ONE = slr * y

FedAvgReturned == agg = "FedAvg" /\ outcome = "returned"

\* C1 (as stated): N >= 1 identical updates v give global_model - lr * v exactly,
\* for every N and every v (read in floating point or in exact arithmetic).
C1_IdenticalExactForEveryN ==
    (FedAvgReturned /\ Identical(clients_grads))
        => \/ global_model = FlSub(Last(hist).g0, FlMul(lr, clients_grads[1]))
           \/ ExactStep(global_model, Last(hist).g0, lr, clients_grads[1])

\* C1 (amended): the call returns global_model - lr * (sum of the updates / N), each
\* operation rounded; for identical updates v this is global_model - lr * v exactly
\* when N is 1 or 2.
C1_FedAvgAverage ==
    FedAvgReturned =>
        /\ Len(clients_grads) >= 1
        /\ global_model =
              FlSub(Last(hist).g0,
                    FlMul(lr, FlDivInt(FlSumFrom(0, clients_grads), Len(clients_grads))))
        /\ (Identical(clients_grads) /\ Len(clients_grads) <= 2)
              => global_model = FlSub(Last(hist).g0, FlMul(lr, clients_grads[1]))

C1_Witness ==
    /\ FedAvgReturned
    /\ Len(clients_grads) = 2
    /\ Identical(clients_grads)
    /\ clients_grads[1] = 14
    /\ global_model # Last(hist).g0

\* C6 (as stated): after k calls with averages a_1..a_k the instance's model is
\* g0 - lr * (a_1 + ... + a_k) (read in floating point or in exact arithmetic).
C6_ClosedForm ==
    (agg = "FedAvg" /\ hist # <<>>)
        => \/ global_model = FlSub(hist[1].g0, FlMul(lr, FlSumFrom(0, AvgsOf(hist))))
           \/ ExactStep(global_model, hist[1].g0, lr, FlSumFrom(0, AvgsOf(hist)))

\* C6 (amended): every completed call starts from the model the previous call left
\* in the instance and leaves that model minus lr * (its average), each operation
\* rounded; the instance holds the model of the last completed call.
C6_Compounds ==
    agg = "FedAvg" =>
        /\ \A k \in 1..Len(hist) :
              /\ hist[k].g1 = FlSub(hist[k].g0, FlMul(lr, hist[k].avg))
              /\ k > 1 => hist[k].g0 = hist[k - 1].g1
        /\ hist # <<>> => global_model = Last(hist).g1

C6_Witness ==
    /\ agg = "FedAvg"
    /\ Len(hist) = 3
    /\ hist[1].g1 # hist[1].g0
    /\ hist[2].g1 # hist[2].g0
    /\ hist[3].g1 # hist[3].g0

\* ------------------------------------------------------ claims on Bicotti
BicottiReturned == agg = "Bicotti" /\ outcome = "returned"
Range(s) == {s[i] : i \in DOMAIN s}
Distinct(s) == \A i, j \in DOMAIN s : i # j => s[i] # s[j]
PickedGrads == [i \in 1..Len(select) |-> clients_grads[select[i]]]
\* the model the last call started from, minus lr * (the average of the kept updates)
AveragedOverSelect ==
    global_model = FlSub(Last(hist).g0,
                         FlMul(lr, FlDivInt(FlSumFrom(0, PickedGrads), Len(select))))

\* o is farther from every other update than any two of the others are apart
IsOutlier(grads, o) ==
    LET others == DOMAIN grads \ {o}
    IN  \A i \in others : \A j, k \in others :
            L2Distance(grads[o], grads[i]) > L2Distance(grads[j], grads[k])

\* C2: with 6 updates, one of them an outlier by distance, the outlier is not among
\* the 4 averaged updates, at whatever index it stands, and the new model is the old
\* one minus lr * (the average of 4 of the other five).
C2_OutlierExcluded ==
    (BicottiReturned /\ Len(clients_grads) = 6)
        => \A o \in 1..6 :
              IsOutlier(clients_grads, o)
                  => /\ Len(select) = 4
                     /\ Distinct(select)
                     /\ Range(select) \subseteq (1..6) \ {o}
                     /\ AveragedOverSelect

C2_Witness ==
    /\ BicottiReturned
    /\ Len(clients_grads) = 6
    /\ IsOutlier(clients_grads, 3)
    /\ clients_grads[3] = 80
    /\ {14, 16} \subseteq Range(clients_grads)
    /\ 3 \notin Range(select)

\* C8: with R >= 1 updates the call averages R - floor(R/3) updates at pairwise
\* distinct indices; each score is the sum of the R - floor(R/3) - 1 smallest
\* distances of the client's row, its zero self-distance among them; no left-out
\* client has a score strictly below a kept client's.
C8_KeepsLowestScores ==
    (agg = "Bicotti" /\ outcome # "none" /\ Len(clients_grads) >= 1)
        => LET R == Len(clients_grads)
               keep == R - (R \div 3)
               d == Dists(clients_grads)
           IN  /\ outcome = "returned"
               /\ Len(select) = keep
               /\ Distinct(select)
               /\ Range(select) \subseteq 1..R
               /\ \A i \in 1..R :
                     /\ SortRow(d[i])[1] = 0
                     /\ scores[i] = FlSumFrom(0, SubSeq(SortRow(d[i]), 1, keep - 1))
               /\ \A i \in Range(select) : \A j \in (1..R) \ Range(select) :
                     ~(scores[j] < scores[i])
               /\ AveragedOverSelect

C8_Witness ==
    /\ BicottiReturned
    /\ Len(clients_grads) = 5
    /\ Len(select) = 4
    /\ \E j \in (1..5) \ Range(select) : \A i \in Range(select) : scores[i] < scores[j]

\* C9: the momentum field stays the zero model through every call, and an instance
\* that differs only in beta holds the same model after the same calls.
C9_NoMomentum ==
    agg = "Bicotti"
        => /\ m = ZerosLike
           /\ twin.beta # beta
           /\ twin.global_model = global_model

C9_Witness ==
    /\ BicottiReturned
    /\ Len(hist) = 2
    /\ hist[1].g1 # hist[1].g0
    /\ hist[2].g1 # hist[2].g0

\* ----------------------------------------------------------- claims on MI
MIScored == agg = "MI" /\ outcome \in {"returned", "division_error"} /\ clients_grads # <<>>

\* C3: identical clients (every pair's correlation 1, so all MI scores equal and
\* the median absolute deviation is zero) are all kept and averaged.
C3_IdenticalClientsAllKept ==
    (/\ agg = "MI"
     /\ outcome # "none"
     /\ clients_grads # <<>>
     /\ Identical(clients_grads)
     /\ \A p \in DOMAIN probe : probe[p] = ONE)
        => /\ outcome = "returned"
           /\ select = [i \in 1..Len(clients_grads) |-> i]

\* C7: a log domain error on 1 - rho_mean^2 never leaves get_mutual_mi as a raised
\* error: after the diagnostic is printed the call runs to completion.
C7_LogErrorNeverPropagates ==
    agg = "MI"
        => /\ outcome # "value_error"
           /\ printed # <<>> => outcome \in {"returned", "division_error"}

\* C10: when the median absolute deviation of the MI scores is not zero, the kept
\* clients are those with |score - median| / (MAD / 0.6745) < 2, they are at least
\* half of the clients, and the division by their count does not fail.
C10_KeepsAtLeastHalf ==
    (MIScored /\ Mad(scores) # 0)
        => /\ \A i \in 1..Len(scores) :
                 i \in Range(select)
                     <=> Abs(FlDiv(FlSub(scores[i], Median(scores)), Madn(scores))) < 2 * ONE
           /\ 2 * Len(select) >= Len(scores)
           /\ select # <<>>
           /\ outcome = "returned"

C10_Witness ==
    /\ MIScored
    /\ Mad(scores) # 0
    /\ Len(scores) = 3
    /\ Len(select) = 2

\* C5: in every completed round m1 = beta * m0 - lr * avg and
\* g1 = g0 + (-beta * m0 + (1 + beta) * m1), avg the average of the kept updates;
\* the round after starts from the (g1, m1) the round before returned.
C5_NesterovAcrossRounds ==
    agg = "MI"
        => /\ \A k \in 1..Len(hist) :
                 /\ hist[k].m1 = FlSub(FlMul(beta, hist[k].m0), FlMul(lr, hist[k].avg))
                 /\ hist[k].g1 =
                       FlAdd(hist[k].g0,
                             FlAdd(FlMul(-beta, hist[k].m0),
                                   FlMul(FlAdd(ONE, beta), hist[k].m1)))
                 /\ k > 1 => (hist[k].g0 = hist[k - 1].g1 /\ hist[k].m0 = hist[k - 1].m1)
           /\ hist # <<>> => (global_model = Last(hist).g1 /\ m = Last(hist).m1)
           /\ outcome = "returned"
                 => Last(hist).avg = FlDivInt(FlSumFrom(0, PickedGrads), Len(select))

C5_Witness ==
    /\ agg = "MI"
    /\ outcome = "returned"
    /\ Len(hist) = 2
    /\ hist[1].m0 # 0
    /\ hist[2].avg # hist[1].avg
    /\ Len(select) < Len(clients_grads)

\* ------------------------------------------------- claims on all classes
\* C4: a call with no client update ends in the division error, for each class;
\* it never returns a model.
C4_EmptyInputDivisionError ==
    (outcome # "none" /\ clients_grads = <<>>)
        => /\ outcome = "division_error"
           /\ hist # <<>> => global_model = Last(hist).g1

C4_Witness ==
    /\ agg = "Bicotti"
    /\ outcome = "division_error"
    /\ clients_grads = <<>>
    /\ hist # <<>>

====
